---- MODULE Spec2Model ----
(***************************************************************************)
(* SmartPtrKit: sptr::shared_ptr / sptr::weak_ptr and their control block. *)
(*                                                                         *)
(* A control block is identified by a number 1..MaxBlocks; the payload it  *)
(* manages carries the same number (every construction event creates one   *)
(* payload and one block).  Null (0) is the null pointer.                  *)
(***************************************************************************)
EXTENDS Integers, FiniteSets, Sequences, TLC

\* ------------------------------------------------------------------ bounds
MaxBlocks == 2
NumShared == 2
NumWeak == 2
NumThreads == 3
NumUnique == 2
MaxObjects == 2

Null == 0
Blocks == 1..MaxBlocks
SharedSlots == 1..NumShared
WeakSlots == 1..NumWeak
Threads == 1..NumThreads
UniqueSlots == 1..NumUnique
Objects == 1..MaxObjects

\* payload classes of the tests: Derived (polymorphic, derived from Base),
\* Node (a shared_ptr member `next`), WeakNode (a weak_ptr member `next_weak`);
\* a payload with no handle member and no cast (Resource, Person) behaves as Derived
Classes == {"Derived", "Node", "WeakNode"}
CastTargets == {"Base", "Derived", "Resource"}

VARIABLES
    blk,    \* the heap: control blocks and the payloads they manage
    sh,     \* the caller's shared_ptr variables
    wk,     \* the caller's weak_ptr variables
    th,     \* threads of the concurrent scenario, each inside one handle operation
    calls,  \* parity of the number of handle operations the caller has run, so
            \* that a call that changes nothing is still a step
    orphan, \* how many times the raw pointer given to the last adoption whose
            \* control-block allocation failed was deleted (0 before any failure)
    uq      \* the unique_ptr part: the caller's unique_ptr variables (up), the
            \* objects made by new (obj) and the pointer release() returned last (ret)

vars == <<blk, sh, wk, th, calls, orphan, uq>>

\* ------------------------------------------------------------ data layout
EmptyHandle == [ptr |-> Null, ctrl |-> Null]
DeadSlot == [live |-> FALSE, ptr |-> Null, ctrl |-> Null]
EmptySlot == [live |-> TRUE, ptr |-> Null, ctrl |-> Null]
Slot(p, c) == [live |-> TRUE, ptr |-> p, ctrl |-> c]

NoBlock ==
    [kind |-> "none", cls |-> "none", use |-> 0, weak |-> 0, m_ptr |-> Null,
     disposed |-> 0, deleted |-> 0, destroyed |-> 0,
     next |-> EmptyHandle, next_weak |-> EmptyHandle]

\* a control block that starts with no strong reference
NewBlock_zero(kind, cls, p) ==
    [kind |-> kind, cls |-> cls, use |-> 0, weak |-> 0, m_ptr |-> p,
     disposed |-> 0, deleted |-> 0, destroyed |-> 0,
     next |-> EmptyHandle, next_weak |-> EmptyHandle]

\* control_block() : m_use_count(1), m_weak_count(0), with the derived block's fields
NewBlock(kind, cls, p) ==
    [kind |-> kind, cls |-> cls, use |-> 1, weak |-> 0, m_ptr |-> p,
     disposed |-> 0, deleted |-> 0, destroyed |-> 0,
     next |-> EmptyHandle, next_weak |-> EmptyHandle]

Allocated(B, b) == B[b].kind # "none"
FreshBlocks(B) == {b \in Blocks : ~Allocated(B, b) /\ \A c \in Blocks : c < b => Allocated(B, c)}

\* -------------------------------------------------------- control_block
\* A read of a counter of a block whose storage was reclaimed reads freed storage:
\* either outcome of the comparison with zero can be observed.
ReadCount(B, b, v) == IF B[b].destroyed > 0 THEN {0, 1} ELSE {v}

\* an add_reference() that does not count
add_reference_none(B, b) == B

add_reference(B, b) == [B EXCEPT ![b].use = @ + 1]

\* an add_weak_reference() that increments the strong counter
add_weak_reference_asStrong(B, b) == [B EXCEPT ![b].use = @ + 1]

add_weak_reference(B, b) == [B EXCEPT ![b].weak = @ + 1]

\* delete this
destroy(B, b) == [B EXCEPT ![b].destroyed = @ + 1]

\* the atomic pre-decrements of release() and weak_release(): the heap after them
DecUse(B, b) == [B EXCEPT ![b].use = @ - 1]
DecWeak(B, b) == [B EXCEPT ![b].weak = @ - 1]

\* a post-decrement in place of the pre-decrement: the test sees the old value
UseAfterDec_post(B, b) == B[b].use

\* the value of the expression --m_use_count that release() compares with 0
UseAfterDec(B, b) == B[b].use - 1

\* the value of the expression --m_weak_count that weak_release() compares with 0
WeakAfterDec(B, b) == B[b].weak - 1

\* control_block::use_count(), as the set of values the read can yield
use_count(B, b) == ReadCount(B, b, B[b].use)

RECURSIVE release(_, _)
RECURSIVE weak_release(_, _)
RECURSIVE dispose(_, _)
RECURSIVE DestroyPayload(_, _)

\* a payload destructor that does not run the destructors of its members
DestroyPayload_leaksMembers(B, p) ==
    { [B EXCEPT ![p].deleted = @ + 1, ![p].next = EmptyHandle, ![p].next_weak = EmptyHandle] }

\* ~T() of payload p: the body, then the members' destructors
\* (~weak_ptr of WeakNode::next_weak, ~shared_ptr of Node::next)
DestroyPayload(B, p) ==
    LET n == B[p].next
        w == B[p].next_weak
        B1 == [B EXCEPT ![p].deleted = @ + 1,
                        ![p].next = EmptyHandle,
                        ![p].next_weak = EmptyHandle]
        afterWeak == IF w.ctrl # Null THEN weak_release(B1, w.ctrl) ELSE {B1}
    IN UNION { IF n.ctrl # Null THEN release(B2, n.ctrl) ELSE {B2} : B2 \in afterWeak }

\* ptr_control_block::dispose (guarded by m_ptr) and inplace_control_block::dispose
dispose(B, b) ==
    LET B1 == [B EXCEPT ![b].disposed = @ + 1]
    IN IF B[b].kind = "ptr"
       THEN IF B[b].m_ptr # Null
            THEN { [B2 EXCEPT ![b].m_ptr = Null] : B2 \in DestroyPayload(B1, B[b].m_ptr) }
            ELSE {B1}
       ELSE DestroyPayload(B1, b)

\* release() that keeps the payload while weak references exist
ReleaseLast_keepForWeak(B, b) ==
    IF B[b].weak = 0 THEN { destroy(B2, b) : B2 \in dispose(B, b) } ELSE {B}

\* the tail of release() once the count was seen to reach zero
ReleaseLast(B, b) ==
    UNION { UNION { IF w = 0 THEN {destroy(B2, b)} ELSE {B2} :
                    w \in ReadCount(B2, b, B2[b].weak) } :
            B2 \in dispose(B, b) }

release(B, b) ==
    LET B1 == DecUse(B, b)
    IN UNION { IF z = 0 THEN ReleaseLast(B1, b) ELSE {B1} :
               z \in ReadCount(B, b, UseAfterDec(B, b)) }

weak_release(B, b) ==
    LET B1 == DecWeak(B, b)
    IN UNION { IF z = 0
               THEN UNION { IF u = 0 THEN {destroy(B1, b)} ELSE {B1} :
                            u \in ReadCount(B1, b, B1[b].use) }
               ELSE {B1} :
               z \in ReadCount(B, b, WeakAfterDec(B, b)) }

\* ---------------------------------------------------------------- handles
\* ~shared_ptr / ~weak_ptr of a handle value h: the heaps that can result
DropShared(B, h) == IF h.ctrl # Null THEN release(B, h.ctrl) ELSE {B}
DropWeak(B, h) == IF h.ctrl # Null THEN weak_release(B, h.ctrl) ELSE {B}

\* a copy that forgets add_reference()
CopyShared_noAdd(B, h) == B

\* shared_ptr(const shared_ptr&), shared_ptr(const shared_ptr<Y>&)
CopyShared(B, h) == IF h.ctrl # Null THEN add_reference(B, h.ctrl) ELSE B

\* a weak copy that forgets add_weak_reference()
CopyWeak_noAdd(B, h) == B

\* weak_ptr(const weak_ptr&), weak_ptr(const shared_ptr<Y>&)
CopyWeak(B, h) == IF h.ctrl # Null THEN add_weak_reference(B, h.ctrl) ELSE B

\* a thread of the concurrent scenario: s / w tell whether it owns a shared_ptr /
\* a weak_ptr to block 1 (s0 / w0: at the start), pc is its position inside the
\* handle operation it is running, res the outcome of its lock()
ThreadOff == [pc |-> "off", s |-> FALSE, w |-> FALSE, s0 |-> FALSE, w0 |-> FALSE, res |-> "none"]
ThreadStart(s, w) == [pc |-> "idle", s |-> s, w |-> w, s0 |-> s, w0 |-> w, res |-> "none"]

\* no unique_ptr variable is alive and no object was made
NoUnique ==
    [up |-> [u \in UniqueSlots |-> [live |-> FALSE, m_ptr |-> Null]],
     obj |-> [o \in Objects |-> [state |-> "none", deleted |-> 0]],
     ret |-> Null]

Init ==
    /\ uq = NoUnique
    /\ blk = [b \in Blocks |-> NoBlock]
    /\ sh = [s \in SharedSlots |-> DeadSlot]
    /\ wk = [w \in WeakSlots |-> DeadSlot]
    /\ th = [t \in Threads |-> ThreadOff]
    /\ calls = 0
    /\ orphan = 0

\* shared_ptr() / shared_ptr(nullptr_t)
SharedDefault(i) ==
    /\ ~sh[i].live
    /\ sh' = [sh EXCEPT ![i] = EmptySlot]
    /\ UNCHANGED <<blk, wk, th, orphan, uq>> /\ calls' = 1 - calls

\* shared_ptr(Y* ptr) adopting a fresh payload of class c
SharedAdopt(i, c) ==
    /\ ~sh[i].live
    /\ \E b \in FreshBlocks(blk) :
        /\ blk' = [blk EXCEPT ![b] = NewBlock("ptr", c, b)]
        /\ sh' = [sh EXCEPT ![i] = Slot(b, b)]
    /\ UNCHANGED <<wk, th, orphan, uq>> /\ calls' = 1 - calls

\* shared_ptr(Y* ptr) with ptr == nullptr: a block is allocated, there is no payload
SharedAdoptNull(i) ==
    /\ ~sh[i].live
    /\ \E b \in FreshBlocks(blk) :
        /\ blk' = [blk EXCEPT ![b] = NewBlock("ptr", "none", Null)]
        /\ sh' = [sh EXCEPT ![i] = Slot(Null, b)]
    /\ UNCHANGED <<wk, th, orphan, uq>> /\ calls' = 1 - calls

\* ~shared_ptr
SharedDrop(i) ==
    /\ sh[i].live
    /\ blk' \in DropShared(blk, sh[i])
    /\ sh' = [sh EXCEPT ![i] = DeadSlot]
    /\ UNCHANGED <<wk, th, orphan, uq>> /\ calls' = 1 - calls

\* make_shared<T>(args...): one inline block holding the payload
MakeShared(i, c) ==
    /\ ~sh[i].live
    /\ \E b \in FreshBlocks(blk) :
        /\ blk' = [blk EXCEPT ![b] = NewBlock("inplace", c, Null)]
        /\ sh' = [sh EXCEPT ![i] = Slot(b, b)]
    /\ UNCHANGED <<wk, th, orphan, uq>> /\ calls' = 1 - calls

\* shared_ptr(const shared_ptr& other), and the covariant shared_ptr(const shared_ptr<Y>&)
SharedCopy(i, j) ==
    /\ ~sh[i].live /\ sh[j].live
    /\ sh' = [sh EXCEPT ![i] = sh[j]]
    /\ blk' = CopyShared(blk, sh[j])
    /\ UNCHANGED <<wk, th, orphan, uq>> /\ calls' = 1 - calls

\* a move constructor that leaves the source's pair in place
SharedMove_keepsSource(i, j) ==
    /\ ~sh[i].live /\ sh[j].live
    /\ sh' = [sh EXCEPT ![i] = sh[j]]
    /\ UNCHANGED <<blk, wk, th, orphan, uq>> /\ calls' = 1 - calls

\* shared_ptr(shared_ptr&& other), and the covariant shared_ptr(shared_ptr<Y>&&)
SharedMove(i, j) ==
    /\ ~sh[i].live /\ sh[j].live
    /\ sh' = [sh EXCEPT ![i] = sh[j], ![j] = EmptySlot]
    /\ UNCHANGED <<blk, wk, th, orphan, uq>> /\ calls' = 1 - calls

\* a copy assignment that releases the old pair before it copies the new one
SharedCopyAssign_releaseFirst(i, j) ==
    /\ sh[i].live /\ sh[j].live
    /\ sh' = [sh EXCEPT ![i] = sh[j]]
    /\ \E B1 \in DropShared(blk, sh[i]) : blk' = CopyShared(B1, sh[j])
    /\ UNCHANGED <<wk, th, orphan, uq>> /\ calls' = 1 - calls

\* operator=(const shared_ptr& other): shared_ptr(other).swap(*this), then ~temporary
SharedCopyAssign(i, j) ==
    /\ sh[i].live /\ sh[j].live
    /\ sh' = [sh EXCEPT ![i] = sh[j]]
    /\ blk' \in DropShared(CopyShared(blk, sh[j]), sh[i])
    /\ UNCHANGED <<wk, th, orphan, uq>> /\ calls' = 1 - calls

\* operator=(shared_ptr&& other): shared_ptr(std::move(other)).swap(*this), then ~temporary
SharedMoveAssign(i, j) ==
    /\ sh[i].live /\ sh[j].live
    /\ LET moved == [sh EXCEPT ![j] = EmptySlot]      \* the temporary took other's pair
       IN /\ sh' = [moved EXCEPT ![i] = sh[j]]        \* swap: *this gets it
          /\ blk' \in DropShared(blk, moved[i])       \* the temporary dies with the old pair
    /\ UNCHANGED <<wk, th, orphan, uq>> /\ calls' = 1 - calls

\* a reset() that empties the handle without releasing its reference
SharedReset_noRelease(i) ==
    /\ sh[i].live
    /\ sh' = [sh EXCEPT ![i] = EmptySlot]
    /\ UNCHANGED <<blk, wk, th, orphan, uq>> /\ calls' = 1 - calls

\* reset(): shared_ptr().swap(*this)
SharedReset(i) ==
    /\ sh[i].live
    /\ sh' = [sh EXCEPT ![i] = EmptySlot]
    /\ blk' \in DropShared(blk, sh[i])
    /\ UNCHANGED <<wk, th, orphan, uq>> /\ calls' = 1 - calls

\* reset(Y* ptr): shared_ptr(ptr).swap(*this), ptr a fresh payload of class c
SharedResetPtr(i, c) ==
    /\ sh[i].live
    /\ \E b \in FreshBlocks(blk) :
        /\ sh' = [sh EXCEPT ![i] = Slot(b, b)]
        /\ blk' \in DropShared([blk EXCEPT ![b] = NewBlock("ptr", c, b)], sh[i])
    /\ UNCHANGED <<wk, th, orphan, uq>> /\ calls' = 1 - calls

\* reset(Y* ptr) with ptr == nullptr
SharedResetNull(i) ==
    /\ sh[i].live
    /\ \E b \in FreshBlocks(blk) :
        /\ sh' = [sh EXCEPT ![i] = Slot(Null, b)]
        /\ blk' \in DropShared([blk EXCEPT ![b] = NewBlock("ptr", "none", Null)], sh[i])
    /\ UNCHANGED <<wk, th, orphan, uq>> /\ calls' = 1 - calls

\* a swap that assigns one way only
SwapPairs_oneWay(H, i, j) == [H EXCEPT ![i] = H[j]]

\* std::swap(m_ptr, other.m_ptr); std::swap(m_ctrl, other.m_ctrl) on handles i and j
\* of the array H of handle variables
SwapPairs(H, i, j) == [H EXCEPT ![i] = H[j], ![j] = H[i]]

\* swap(shared_ptr& other)
SharedSwap(i, j) ==
    /\ sh[i].live /\ sh[j].live
    /\ sh' = SwapPairs(sh, i, j)
    /\ UNCHANGED <<blk, wk, th, orphan, uq>> /\ calls' = 1 - calls

\* dynamic_cast<T*>(p) on a payload of dynamic class cls
DynamicCastOK(cls, T) ==
    \/ cls = "Derived" /\ T \in {"Base", "Derived"}
    \/ cls = "Base" /\ T = "Base"

\* the classes dynamic_cast accepts as a source (polymorphic ones)
Polymorphic == {"Base", "Derived"}

\* a checked cast that shares the block whatever dynamic_cast returns
DynamicCastResult_sharesOnFailure(B, h, T) ==
    IF h.ptr # Null /\ DynamicCastOK(B[h.ptr].cls, T)
    THEN <<h, IF h.ctrl # Null THEN add_reference(B, h.ctrl) ELSE B>>
    ELSE <<[ptr |-> Null, ctrl |-> h.ctrl], IF h.ctrl # Null THEN add_reference(B, h.ctrl) ELSE B>>

\* the pair dynamic_pointer_cast<T>(other) returns, and the heap after it
DynamicCastResult(B, h, T) ==
    IF h.ptr # Null /\ DynamicCastOK(B[h.ptr].cls, T)
    THEN <<h, IF h.ctrl # Null THEN add_reference(B, h.ctrl) ELSE B>>
    ELSE <<EmptyHandle, B>>

DynamicCast(i, j, T) ==
    /\ ~sh[i].live /\ sh[j].live
    /\ sh[j].ptr # Null => blk[sh[j].ptr].cls \in Polymorphic
    /\ LET r == DynamicCastResult(blk, sh[j], T)
       IN /\ sh' = [sh EXCEPT ![i] = Slot(r[1].ptr, r[1].ctrl)]
          /\ blk' = r[2]
    /\ UNCHANGED <<wk, th, orphan, uq>> /\ calls' = 1 - calls

\* an unchecked cast that takes the block without add_reference()
UncheckedCastResult_noAdd(B, h) == <<h, B>>

\* static_pointer_cast / const_pointer_cast / reinterpret_pointer_cast: the same body
UncheckedCastResult(B, h) ==
    <<h, IF h.ctrl # Null THEN add_reference(B, h.ctrl) ELSE B>>

StaticCast(i, j) ==
    /\ ~sh[i].live /\ sh[j].live
    /\ LET r == UncheckedCastResult(blk, sh[j])
       IN /\ sh' = [sh EXCEPT ![i] = Slot(r[1].ptr, r[1].ctrl)]
          /\ blk' = r[2]
    /\ UNCHANGED <<wk, th, orphan, uq>> /\ calls' = 1 - calls

\* ------------------------------------------------------------- weak_ptr
\* weak_ptr()
WeakDefault(i) ==
    /\ ~wk[i].live
    /\ wk' = [wk EXCEPT ![i] = EmptySlot]
    /\ UNCHANGED <<blk, sh, th, orphan, uq>> /\ calls' = 1 - calls

\* weak_ptr(const weak_ptr& other)
WeakCopy(i, j) ==
    /\ ~wk[i].live /\ wk[j].live
    /\ wk' = [wk EXCEPT ![i] = wk[j]]
    /\ blk' = CopyWeak(blk, wk[j])
    /\ UNCHANGED <<sh, th, orphan, uq>> /\ calls' = 1 - calls

\* weak_ptr(const shared_ptr<Y>& other)
WeakFromShared(i, s) ==
    /\ ~wk[i].live /\ sh[s].live
    /\ wk' = [wk EXCEPT ![i] = sh[s]]
    /\ blk' = CopyWeak(blk, sh[s])
    /\ UNCHANGED <<sh, th, orphan, uq>> /\ calls' = 1 - calls

\* weak_ptr(weak_ptr&& other)
WeakMove(i, j) ==
    /\ ~wk[i].live /\ wk[j].live
    /\ wk' = [wk EXCEPT ![i] = wk[j], ![j] = EmptySlot]
    /\ UNCHANGED <<blk, sh, th, orphan, uq>> /\ calls' = 1 - calls

\* ~weak_ptr
WeakDrop(i) ==
    /\ wk[i].live
    /\ blk' \in DropWeak(blk, wk[i])
    /\ wk' = [wk EXCEPT ![i] = DeadSlot]
    /\ UNCHANGED <<sh, th, orphan, uq>> /\ calls' = 1 - calls

\* operator=(const weak_ptr& other)
WeakCopyAssign(i, j) ==
    /\ wk[i].live /\ wk[j].live
    /\ wk' = [wk EXCEPT ![i] = wk[j]]
    /\ blk' \in DropWeak(CopyWeak(blk, wk[j]), wk[i])
    /\ UNCHANGED <<sh, th, orphan, uq>> /\ calls' = 1 - calls

\* operator=(weak_ptr&& other)
WeakMoveAssign(i, j) ==
    /\ wk[i].live /\ wk[j].live
    /\ LET moved == [wk EXCEPT ![j] = EmptySlot]
       IN /\ wk' = [moved EXCEPT ![i] = wk[j]]
          /\ blk' \in DropWeak(blk, moved[i])
    /\ UNCHANGED <<sh, th, orphan, uq>> /\ calls' = 1 - calls

\* operator=(const shared_ptr<Y>& other)
WeakAssignShared(i, s) ==
    /\ wk[i].live /\ sh[s].live
    /\ wk' = [wk EXCEPT ![i] = sh[s]]
    /\ blk' \in DropWeak(CopyWeak(blk, sh[s]), wk[i])
    /\ UNCHANGED <<sh, th, orphan, uq>> /\ calls' = 1 - calls

\* reset(): weak_ptr().swap(*this)
WeakReset(i) ==
    /\ wk[i].live
    /\ wk' = [wk EXCEPT ![i] = EmptySlot]
    /\ blk' \in DropWeak(blk, wk[i])
    /\ UNCHANGED <<sh, th, orphan, uq>> /\ calls' = 1 - calls

\* swap(weak_ptr& other)
WeakSwap(i, j) ==
    /\ wk[i].live /\ wk[j].live
    /\ wk' = SwapPairs(wk, i, j)
    /\ UNCHANGED <<blk, sh, th, orphan, uq>> /\ calls' = 1 - calls

\* weak_ptr::use_count(): the values the call can return
WeakUseCount(B, h) == IF h.ctrl # Null THEN use_count(B, h.ctrl) ELSE {0}

\* shared_ptr(Y* ptr, control_block* ctrl): the private constructor lock() uses
SharedFromWeak(B, h) == <<h, IF h.ctrl # Null THEN add_reference(B, h.ctrl) ELSE B>>

\* lock() without the expired() test
LockResults_unchecked(B, h) == { SharedFromWeak(B, h) }

\* weak_ptr::lock() run without interruption: the <<pair, heap>> results
LockResults(B, h) ==
    { IF u = 0 THEN <<EmptyHandle, B>> ELSE SharedFromWeak(B, h) : u \in WeakUseCount(B, h) }

\* auto s = w.lock()
Lock(i, w) ==
    /\ ~sh[i].live /\ wk[w].live
    /\ \E r \in LockResults(blk, wk[w]) :
        /\ sh' = [sh EXCEPT ![i] = Slot(r[1].ptr, r[1].ctrl)]
        /\ blk' = r[2]
    /\ UNCHANGED <<wk, th, orphan, uq>> /\ calls' = 1 - calls

\* ------------------------------------------------- handles held by payloads
\* a live payload reached through a non-null shared_ptr of the caller
Pointee(s, c) ==
    /\ sh[s].live /\ sh[s].ptr # Null
    /\ blk[sh[s].ptr].cls = c /\ blk[sh[s].ptr].deleted = 0

\* Node::connect: next = other
Connect(s, o) ==
    /\ Pointee(s, "Node") /\ sh[o].live
    /\ LET p == sh[s].ptr
           h == [ptr |-> sh[o].ptr, ctrl |-> sh[o].ctrl]
           B1 == [CopyShared(blk, h) EXCEPT ![p].next = h]
       IN blk' \in DropShared(B1, blk[p].next)
    /\ UNCHANGED <<sh, wk, th, orphan, uq>> /\ calls' = 1 - calls

\* WeakNode::connect: next_weak = other
ConnectWeak(s, o) ==
    /\ Pointee(s, "WeakNode") /\ sh[o].live
    /\ LET p == sh[s].ptr
           h == [ptr |-> sh[o].ptr, ctrl |-> sh[o].ctrl]
           B1 == [CopyWeak(blk, h) EXCEPT ![p].next_weak = h]
       IN blk' \in DropWeak(B1, blk[p].next_weak)
    /\ UNCHANGED <<sh, wk, th, orphan, uq>> /\ calls' = 1 - calls

\* auto locked = node->next_weak.lock()
LockMember(i, s) ==
    /\ ~sh[i].live /\ Pointee(s, "WeakNode")
    /\ \E r \in LockResults(blk, blk[sh[s].ptr].next_weak) :
        /\ sh' = [sh EXCEPT ![i] = Slot(r[1].ptr, r[1].ctrl)]
        /\ blk' = r[2]
    /\ UNCHANGED <<wk, th, orphan, uq>> /\ calls' = 1 - calls

Next ==
    \/ \E i \in SharedSlots : SharedDefault(i)
    \/ \E i \in SharedSlots, c \in Classes : SharedAdopt(i, c)
    \/ \E i \in SharedSlots : SharedAdoptNull(i)
    \/ \E i \in SharedSlots, c \in Classes : MakeShared(i, c)
    \/ \E i, j \in SharedSlots : SharedCopy(i, j)
    \/ \E i, j \in SharedSlots : SharedMove(i, j)
    \/ \E i \in SharedSlots : SharedDrop(i)
    \/ \E i, j \in SharedSlots : SharedCopyAssign(i, j)
    \/ \E i, j \in SharedSlots : SharedMoveAssign(i, j)
    \/ \E i \in SharedSlots : SharedReset(i)
    \/ \E i \in SharedSlots, c \in Classes : SharedResetPtr(i, c)
    \/ \E i \in SharedSlots : SharedResetNull(i)
    \/ \E i, j \in SharedSlots : SharedSwap(i, j)
    \/ \E i, j \in SharedSlots, T \in CastTargets : DynamicCast(i, j, T)
    \/ \E i, j \in SharedSlots : StaticCast(i, j)
    \/ \E i \in WeakSlots : WeakDefault(i)
    \/ \E i, j \in WeakSlots : WeakCopy(i, j)
    \/ \E i \in WeakSlots, s \in SharedSlots : WeakFromShared(i, s)
    \/ \E i, j \in WeakSlots : WeakMove(i, j)
    \/ \E i \in WeakSlots : WeakDrop(i)
    \/ \E i, j \in WeakSlots : WeakCopyAssign(i, j)
    \/ \E i, j \in WeakSlots : WeakMoveAssign(i, j)
    \/ \E i \in WeakSlots, s \in SharedSlots : WeakAssignShared(i, s)
    \/ \E i \in WeakSlots : WeakReset(i)
    \/ \E i, j \in WeakSlots : WeakSwap(i, j)
    \/ \E i \in SharedSlots, w \in WeakSlots : Lock(i, w)
    \/ \E s, o \in SharedSlots : Connect(s, o)
    \/ \E s, o \in SharedSlots : ConnectWeak(s, o)
    \/ \E i, s \in SharedSlots : LockMember(i, s)

Spec == Init /\ [][Next]_vars

\* ------------------------------------------------- allocation failure
\* a catch block that rethrows without delete ptr
CatchDelete_leak(n) == n

\* catch (...) { delete ptr; throw; }: the number of deletes of ptr after it
CatchDelete(n) == n + 1

\* shared_ptr(Y* ptr), ptr a fresh payload, when new ptr_control_block<Y>(ptr)
\* throws: the constructor does not complete, so no shared_ptr object exists
SharedAdoptFail(i) ==
    /\ ~sh[i].live
    /\ orphan' = CatchDelete(0)
    /\ UNCHANGED <<blk, sh, wk, th, uq>> /\ calls' = 1 - calls

\* a reset(Y*) that lets go of the old pair before it builds the replacement
SharedResetPtrFail_releasesFirst(i) ==
    /\ sh[i].live
    /\ sh' = [sh EXCEPT ![i] = EmptySlot]
    /\ blk' \in DropShared(blk, sh[i])
    /\ orphan' = CatchDelete(0)
    /\ UNCHANGED <<wk, th, uq>> /\ calls' = 1 - calls

\* reset(Y* ptr) when the temporary shared_ptr(ptr) throws: swap is not reached
SharedResetPtrFail(i) ==
    /\ sh[i].live
    /\ orphan' = CatchDelete(0)
    /\ UNCHANGED <<blk, sh, wk, th, uq>> /\ calls' = 1 - calls

NextAlloc ==
    \/ Next
    \/ \E i \in SharedSlots : SharedAdoptFail(i)
    \/ \E i \in SharedSlots : SharedResetPtrFail(i)

SpecAlloc == Init /\ [][NextAlloc]_vars

\* --------------------------------------------------------------- unique_ptr
\* An object made by new is "owned" once a unique_ptr adopted it and "released"
\* once release() handed it back to the caller; deleted counts the calls of the
\* deleter (or of the caller's delete) on it.
UniqueEmpty == [live |-> TRUE, m_ptr |-> Null]
UniqueDead == [live |-> FALSE, m_ptr |-> Null]

\* the objects new has not made yet (the next one, in order)
FreshObjects(U) ==
    {o \in Objects : U.obj[o].state = "none" /\ \A q \in Objects : q < o => U.obj[q].state # "none"}

\* m_deleter(p): default_delete
Delete(U, p) == [U EXCEPT !.obj[p].deleted = @ + 1]

\* a release() that returns the pointer and keeps it
unique_release_keeps(U, i) == <<U.up[i].m_ptr, U>>

\* unique_ptr::release(): <<the pointer returned, the state after>>
unique_release(U, i) == <<U.up[i].m_ptr, [U EXCEPT !.up[i].m_ptr = Null]>>

\* a reset(p) that forgets the old pointer without deleting it
unique_reset_leak(U, i, p) == [U EXCEPT !.up[i].m_ptr = p]

\* unique_ptr::reset(pointer p)
unique_reset(U, i, p) ==
    LET old_ptr == U.up[i].m_ptr
        U1 == [U EXCEPT !.up[i].m_ptr = p]
    IN IF old_ptr # Null THEN Delete(U1, old_ptr) ELSE U1

\* unique_ptr() / unique_ptr(nullptr_t)
UniqueDefault(i) ==
    /\ ~uq.up[i].live
    /\ uq' = [uq EXCEPT !.up[i] = UniqueEmpty]
    /\ UNCHANGED <<blk, sh, wk, th, orphan>> /\ calls' = 1 - calls

\* unique_ptr(pointer p) with p = new T, and make_unique<T>(args...)
UniqueAdopt(i) ==
    /\ ~uq.up[i].live
    /\ \E o \in FreshObjects(uq) :
          uq' = [uq EXCEPT !.obj[o].state = "owned", !.up[i] = [live |-> TRUE, m_ptr |-> o]]
    /\ UNCHANGED <<blk, sh, wk, th, orphan>> /\ calls' = 1 - calls

\* ~unique_ptr(): reset()
UniqueDrop(i) ==
    /\ uq.up[i].live
    /\ uq' = [unique_reset(uq, i, Null) EXCEPT !.up[i] = UniqueDead]
    /\ UNCHANGED <<blk, sh, wk, th, orphan>> /\ calls' = 1 - calls

\* unique_ptr(unique_ptr&& other) : m_ptr(other.release())
UniqueMove(i, j) ==
    /\ ~uq.up[i].live /\ uq.up[j].live
    /\ LET r == unique_release(uq, j)
       IN uq' = [r[2] EXCEPT !.up[i] = [live |-> TRUE, m_ptr |-> r[1]]]
    /\ UNCHANGED <<blk, sh, wk, th, orphan>> /\ calls' = 1 - calls

\* operator=(unique_ptr&& other): if (this != &other) reset(other.release())
UniqueMoveAssign(i, j) ==
    /\ uq.up[i].live /\ uq.up[j].live
    /\ IF i # j
       THEN LET r == unique_release(uq, j)
            IN uq' = unique_reset(r[2], i, r[1])
       ELSE uq' = uq
    /\ UNCHANGED <<blk, sh, wk, th, orphan>> /\ calls' = 1 - calls

\* T* p = u.release(): the caller now holds the pointer
UniqueRelease(i) ==
    /\ uq.up[i].live
    /\ LET r == unique_release(uq, i)
       IN uq' = IF r[1] # Null
                THEN [r[2] EXCEPT !.ret = r[1], !.obj[r[1]].state = "released"]
                ELSE [r[2] EXCEPT !.ret = Null]
    /\ UNCHANGED <<blk, sh, wk, th, orphan>> /\ calls' = 1 - calls

\* reset()
UniqueReset(i) ==
    /\ uq.up[i].live
    /\ uq' = unique_reset(uq, i, Null)
    /\ UNCHANGED <<blk, sh, wk, th, orphan>> /\ calls' = 1 - calls

\* reset(p) with p = new T
UniqueResetPtr(i) ==
    /\ uq.up[i].live
    /\ \E o \in FreshObjects(uq) :
          uq' = unique_reset([uq EXCEPT !.obj[o].state = "owned"], i, o)
    /\ UNCHANGED <<blk, sh, wk, th, orphan>> /\ calls' = 1 - calls

\* swap(unique_ptr& other)
UniqueSwap(i, j) ==
    /\ uq.up[i].live /\ uq.up[j].live
    /\ uq' = [uq EXCEPT !.up = SwapPairs(uq.up, i, j)]
    /\ UNCHANGED <<blk, sh, wk, th, orphan>> /\ calls' = 1 - calls

\* delete released: the caller deletes a pointer release() gave it
CallerDelete(o) ==
    /\ uq.obj[o].state = "released" /\ uq.obj[o].deleted = 0
    /\ uq' = Delete(uq, o)
    /\ UNCHANGED <<blk, sh, wk, th, orphan>> /\ calls' = 1 - calls

NextUnique ==
    \/ \E i \in UniqueSlots : UniqueDefault(i)
    \/ \E i \in UniqueSlots : UniqueAdopt(i)
    \/ \E i \in UniqueSlots : UniqueDrop(i)
    \/ \E i, j \in UniqueSlots : UniqueMove(i, j)
    \/ \E i, j \in UniqueSlots : UniqueMoveAssign(i, j)
    \/ \E i \in UniqueSlots : UniqueRelease(i)
    \/ \E i \in UniqueSlots : UniqueReset(i)
    \/ \E i \in UniqueSlots : UniqueResetPtr(i)
    \/ \E i, j \in UniqueSlots : UniqueSwap(i, j)
    \/ \E o \in Objects : CallerDelete(o)

SpecUnique == Init /\ [][NextUnique]_vars

\* ------------------------------------------------ concurrent handle operations
\* Threads share control block 1; each owns its own handles to it and runs
\* ~shared_ptr, ~weak_ptr and weak_ptr::lock() one atomic access at a time.
TheBlock == 1

Card(S) == Cardinality(S)

InitRace ==
    /\ uq = NoUnique
    /\ calls = 0
    /\ orphan = 0
    /\ sh = [s \in SharedSlots |-> DeadSlot]
    /\ wk = [w \in WeakSlots |-> DeadSlot]
    /\ \E hs \in [Threads -> BOOLEAN], hw \in [Threads -> BOOLEAN], kind \in {"ptr", "inplace"} :
        /\ \E t \in Threads : hs[t]
        /\ th = [t \in Threads |-> ThreadStart(hs[t], hw[t])]
        /\ blk = [b \in Blocks |->
                    IF b = TheBlock
                    THEN [NewBlock(kind, "Derived", IF kind = "ptr" THEN TheBlock ELSE Null)
                            EXCEPT !.use = Card({t \in Threads : hs[t]}),
                                   !.weak = Card({t \in Threads : hw[t]})]
                    ELSE NoBlock]

\* release(): --m_use_count and the test of its result
ReleaseDec(t) ==
    /\ th[t].pc = "idle" /\ th[t].s
    /\ blk' = DecUse(blk, TheBlock)
    /\ \E z \in ReadCount(blk, TheBlock, UseAfterDec(blk, TheBlock)) :
        th' = [th EXCEPT ![t].s = FALSE, ![t].pc = IF z = 0 THEN "dispose" ELSE "idle"]
    /\ UNCHANGED <<sh, wk, calls, orphan, uq>>

\* release(): dispose()
ReleaseDispose(t) ==
    /\ th[t].pc = "dispose"
    /\ blk' \in dispose(blk, TheBlock)
    /\ th' = [th EXCEPT ![t].pc = "r_read"]
    /\ UNCHANGED <<sh, wk, calls, orphan, uq>>

\* release(): if (m_weak_count == 0)
ReleaseReadWeak(t) ==
    /\ th[t].pc = "r_read"
    /\ \E v \in ReadCount(blk, TheBlock, blk[TheBlock].weak) :
        th' = [th EXCEPT ![t].pc = IF v = 0 THEN "r_destroy" ELSE "idle"]
    /\ UNCHANGED <<blk, sh, wk, calls, orphan, uq>>

\* release(): destroy()
ReleaseDestroy(t) ==
    /\ th[t].pc = "r_destroy"
    /\ blk' = destroy(blk, TheBlock)
    /\ th' = [th EXCEPT ![t].pc = "idle"]
    /\ UNCHANGED <<sh, wk, calls, orphan, uq>>

\* weak_release(): --m_weak_count == 0, the left operand of &&
WeakReleaseDec(t) ==
    /\ th[t].pc = "idle" /\ th[t].w
    /\ blk' = DecWeak(blk, TheBlock)
    /\ \E z \in ReadCount(blk, TheBlock, WeakAfterDec(blk, TheBlock)) :
        th' = [th EXCEPT ![t].w = FALSE, ![t].pc = IF z = 0 THEN "w_read" ELSE "idle"]
    /\ UNCHANGED <<sh, wk, calls, orphan, uq>>

\* weak_release(): m_use_count == 0, the right operand of &&
WeakReleaseReadUse(t) ==
    /\ th[t].pc = "w_read"
    /\ \E u \in use_count(blk, TheBlock) :
        th' = [th EXCEPT ![t].pc = IF u = 0 THEN "w_destroy" ELSE "idle"]
    /\ UNCHANGED <<blk, sh, wk, calls, orphan, uq>>

\* weak_release(): destroy()
WeakReleaseDestroy(t) ==
    /\ th[t].pc = "w_destroy"
    /\ blk' = destroy(blk, TheBlock)
    /\ th' = [th EXCEPT ![t].pc = "idle"]
    /\ UNCHANGED <<sh, wk, calls, orphan, uq>>

\* lock(): if (expired()) return shared_ptr<T>();
LockExpired(t) ==
    /\ th[t].pc = "idle" /\ th[t].w /\ ~th[t].s /\ th[t].res = "none"
    /\ \E u \in use_count(blk, TheBlock) :
        th' = [th EXCEPT ![t].pc = IF u = 0 THEN "idle" ELSE "l_add",
                         ![t].res = IF u = 0 THEN "empty" ELSE "none"]
    /\ UNCHANGED <<blk, sh, wk, calls, orphan, uq>>

\* lock(): return shared_ptr<T>(m_ptr, m_ctrl), which runs add_reference()
LockAdd(t) ==
    /\ th[t].pc = "l_add"
    /\ blk' = add_reference(blk, TheBlock)
    /\ th' = [th EXCEPT ![t].pc = "idle", ![t].s = TRUE, ![t].res = "got"]
    /\ UNCHANGED <<sh, wk, calls, orphan, uq>>

NextRace ==
    \/ \E t \in Threads : ReleaseDec(t)
    \/ \E t \in Threads : ReleaseDispose(t)
    \/ \E t \in Threads : ReleaseReadWeak(t)
    \/ \E t \in Threads : ReleaseDestroy(t)
    \/ \E t \in Threads : WeakReleaseDec(t)
    \/ \E t \in Threads : WeakReleaseReadUse(t)
    \/ \E t \in Threads : WeakReleaseDestroy(t)
    \/ \E t \in Threads : LockExpired(t)
    \/ \E t \in Threads : LockAdd(t)

SpecRace == InitRace /\ [][NextRace]_vars

\* ------------------------------------------------------------------ claims
\* the handles of the program that reference block b: the caller's variables and
\* the members of payloads
SharedHolders(b) ==
    Card({s \in SharedSlots : sh[s].ctrl = b}) + Card({p \in Blocks : blk[p].next.ctrl = b})
WeakHolders(b) ==
    Card({w \in WeakSlots : wk[w].ctrl = b}) + Card({p \in Blocks : blk[p].next_weak.ctrl = b})

\* the block was created with a payload (not by adopting nullptr)
HasPayload(b) == Allocated(blk, b) /\ blk[b].cls # "none"

\* C1: in single-threaded use dispose runs exactly once per block, in the step that
\* takes strong_count from 1 to 0 and in no earlier one: a block whose strong_count
\* is positive was never disposed, one whose strong_count is 0 was disposed exactly
\* once (and its payload destructed exactly once), and once every Shared Handle on
\* the block is gone the block was disposed.
C1_DisposedExactlyOnce ==
    \A b \in Blocks : Allocated(blk, b) =>
        /\ blk[b].disposed <= 1
        /\ blk[b].use > 0 => blk[b].disposed = 0
        /\ blk[b].use = 0 => blk[b].disposed = 1
        /\ HasPayload(b) => blk[b].deleted = blk[b].disposed
        /\ SharedHolders(b) = 0 => blk[b].disposed = 1

\* C1 witness: a block that two Shared Handles cannot own any more (none is left),
\* disposed, while another block is still owned
C1_Witness ==
    \E b \in Blocks :
        /\ HasPayload(b) /\ SharedHolders(b) = 0
        /\ blk[b].disposed = 1 /\ blk[b].deleted = 1
        /\ \A s \in SharedSlots : ~sh[s].live

\* C2: destroy runs exactly once per block and only with both counts at zero.
C2_DestroyedExactlyOnce ==
    \A b \in Blocks : Allocated(blk, b) =>
        /\ blk[b].destroyed <= 1
        /\ blk[b].destroyed >= 1 => blk[b].use = 0 /\ blk[b].weak = 0
        /\ SharedHolders(b) + WeakHolders(b) = 0 => blk[b].destroyed = 1

\* ---- the concurrent scenario
Holders0(f) == Card({t \in Threads : th[t][f]})
AllIdle == \A t \in Threads : th[t].pc = "idle"
NoLock == \A t \in Threads : th[t].res = "none" /\ th[t].pc # "l_add"
AllDropped == AllIdle /\ \A t \in Threads : ~th[t].s /\ ~th[t].w

\* C3: one thread drops the last Shared Handle while another drops the last Weak
\* Handle (nobody locks): destroy is called by exactly one of them, in every
\* interleaving.
C3_ExactlyOneDestroy ==
    (Holders0("s0") = 1 /\ Holders0("w0") = 1 /\ NoLock) =>
        /\ blk[TheBlock].destroyed <= 1
        /\ AllDropped => blk[TheBlock].destroyed = 1

\* C4: lock() never hands out a Shared Handle to a disposed payload, and dispose
\* never runs twice.
C4_LockNeverResurrects ==
    /\ \A t \in Threads : th[t].s => blk[TheBlock].disposed = 0
    /\ blk[TheBlock].disposed <= 1

\* C5: K >= 2 threads, one Shared Handle each and no Weak Handle, drop concurrently:
\* dispose runs once and only after all K decrements, destroy runs once, after it.
C5_ConcurrentDrops ==
    (Holders0("s0") >= 2 /\ Holders0("w0") = 0) =>
        /\ blk[TheBlock].disposed <= 1 /\ blk[TheBlock].destroyed <= 1
        /\ blk[TheBlock].disposed >= 1 => \A t \in Threads : ~th[t].s
        /\ blk[TheBlock].destroyed >= 1 => blk[TheBlock].disposed = 1
        /\ AllDropped => blk[TheBlock].disposed = 1 /\ blk[TheBlock].destroyed = 1

\* C5 witness: all of K >= 2 owners have dropped, the block is disposed and reclaimed
C5_Witness ==
    /\ Holders0("s0") >= 2 /\ Holders0("w0") = 0
    /\ AllDropped
    /\ blk[TheBlock].disposed = 1 /\ blk[TheBlock].destroyed = 1

\* ---- steps of the single-threaded model
Pair(h) == [ptr |-> h.ptr, ctrl |-> h.ctrl]
Counts(B, b) == <<B[b].use, B[b].weak>>
Fate(B, b) == <<B[b].disposed, B[b].destroyed>>

\* use_count() and expired() as a weak_ptr with pair h reports them on heap B
WeakSeesExpired(B, h) == WeakUseCount(B, h) = {0}

\* C6: a step that drops (or resets) the one Shared Handle of a block disposes the
\* payload in that step whatever the number of Weak Handles; every Weak Handle left
\* then reports use_count() 0 and expired(); and no block is reclaimed while a Weak
\* Handle references it, but it is once strong_count is 0 and the last one is gone.
C6_WeakNeverPreventsDisposal ==
    [][ /\ \A i \in SharedSlots :
            LET b == sh[i].ctrl
            IN (b # Null /\ blk[b].use = 1 /\ (SharedDrop(i) \/ SharedReset(i))) =>
                /\ blk[b].disposed = 0 /\ blk'[b].disposed = 1
                /\ \A w \in WeakSlots : wk'[w].ctrl = b => WeakSeesExpired(blk', wk'[w])
                /\ \A p \in Blocks :
                      blk'[p].next_weak.ctrl = b => WeakSeesExpired(blk', blk'[p].next_weak)
        /\ \A b \in Blocks :
            /\ WeakHolders(b)' > 0 => blk'[b].destroyed = 0
            /\ (Allocated(blk', b) /\ blk'[b].use = 0 /\ WeakHolders(b)' = 0)
                  => blk'[b].destroyed >= 1
      ]_vars

\* C6 witness: the payload is disposed, two Weak Handles still observe the block,
\* which is not reclaimed
C6_Witness ==
    \E b \in Blocks :
        /\ blk[b].disposed = 1 /\ blk[b].use = 0 /\ blk[b].destroyed = 0
        /\ Card({w \in WeakSlots : wk[w].ctrl = b}) >= 2
        /\ SharedHolders(b) = 0

\* what lock() on a weak_ptr with pair h must leave in the new shared_ptr i
LockPost(h, i) ==
    IF h.ctrl # Null /\ blk[h.ctrl].use > 0
    THEN /\ Pair(sh'[i]) = h /\ sh'[i].live
         /\ blk' = [blk EXCEPT ![h.ctrl].use = @ + 1]
    ELSE /\ sh'[i] = EmptySlot
         /\ blk' = blk

\* C7: single-threaded lock() on a non-expired Weak Handle returns a handle with the
\* same block and payload pointer and use_count() one greater than before (nothing
\* else changes); on an expired one (empty, or strong count 0) it returns an empty
\* handle and changes no count of any block.
C7_Lock ==
    [][ /\ \A i \in SharedSlots, w \in WeakSlots : Lock(i, w) => LockPost(Pair(wk[w]), i)
        /\ \A i, s \in SharedSlots :
              LockMember(i, s) => LockPost(blk[sh[s].ptr].next_weak, i)
      ]_vars

\* C7 witness: a handle obtained by upgrading shares the block with the Weak Handle
\* and the original owner, and an expired Weak Handle sits beside an empty result
C7_Witness ==
    \E i \in SharedSlots, w \in WeakSlots :
        /\ sh[i].live /\ wk[w].live
        /\ sh[i].ctrl # Null /\ Pair(sh[i]) = Pair(wk[w])
        /\ blk[sh[i].ctrl].use = 2 /\ blk[sh[i].ctrl].weak = 1
        /\ SharedHolders(sh[i].ctrl) = 2

\* the claim's effect of copying the pair of a into b
CopyPostOriginal(i, j) ==
    IF sh[j].ctrl # Null
    THEN LET b == sh[j].ctrl
         IN /\ blk'[b].use = blk[b].use + 1
            /\ Pair(sh'[i]) = Pair(sh[j]) /\ Pair(sh'[j]) = Pair(sh[j])
            /\ blk'[b].weak = blk[b].weak
    ELSE /\ sh'[i] = EmptySlot
         /\ \A b \in Blocks : Counts(blk', b) = Counts(blk, b)

\* C8 as claimed, kept to its plainest case: copy-constructing b from a, or
\* copy-assigning a non-empty a to another handle b (one that is not the last owner
\* of what it holds, so that the assignment disposes nothing), yields
\* a.use_count() == b.use_count() == c + 1 with the same pair and weak_count unchanged.
C8_Original ==
    [][ \A i, j \in SharedSlots :
           \/ ~ \/ SharedCopy(i, j)
                \/ /\ i # j /\ sh[j].ctrl # Null
                   /\ sh[i].ctrl # Null => blk[sh[i].ctrl].use > 1
                   /\ SharedCopyAssign(i, j)
           \/ CopyPostOriginal(i, j) ]_vars

\* C8 amended: copy construction is as claimed; copy assignment is as claimed when
\* b was empty or held another block with further owners; when b already shared a's
\* block (a = a included) use_count() stays c; assigning an empty handle makes b
\* empty and releases the one strong reference b held.
C8_Copy ==
    [][ /\ \A i, j \in SharedSlots : SharedCopy(i, j) => CopyPostOriginal(i, j)
        /\ \A i, j \in SharedSlots : SharedCopyAssign(i, j) =>
            LET b == sh[j].ctrl
                y == sh[i].ctrl
            IN /\ Pair(sh'[i]) = Pair(sh[j]) /\ Pair(sh'[j]) = Pair(sh[j])
               /\ (b # Null /\ (y = Null \/ (y # b /\ blk[y].use > 1))) =>
                     Counts(blk', b) = <<blk[b].use + 1, blk[b].weak>>
               /\ (b # Null /\ y = b) => blk' = blk
               /\ (y = Null /\ b = Null) => blk' = blk
               /\ (y # Null /\ y # b /\ blk[y].use > 1) =>
                     blk' = [blk EXCEPT ![y].use = @ - 1, ![b].use = @ + 1]
               /\ (y # Null /\ y # b) => blk'[y].use = blk[y].use - 1
      ]_vars

\* C8 witness: a and its copy b share one block with use_count() 2 beside a Weak
\* Handle whose count the copy left alone
C8_Witness ==
    \E i, j \in SharedSlots :
        /\ i # j /\ sh[i].live /\ sh[j].live
        /\ sh[i].ptr # Null /\ Pair(sh[i]) = Pair(sh[j])
        /\ Counts(blk, sh[i].ctrl) = <<2, 1>>
        /\ \E w \in WeakSlots : wk[w].ctrl = sh[i].ctrl

\* C9 as claimed, kept to two distinct handles and a non-empty source: after a move
\* construction or a move assignment the source is empty, the destination holds the
\* source's pair and reports the pre-move use_count(), the block's two counts are
\* unchanged and neither dispose nor destroy ran on it (Shared and Weak Handles).
C9_Original ==
    [][ /\ \A i, j \in SharedSlots :
            (i # j /\ sh[j].ctrl # Null /\ (SharedMove(i, j) \/ SharedMoveAssign(i, j))) =>
                LET b == sh[j].ctrl
                IN /\ sh'[j] = EmptySlot /\ Pair(sh'[i]) = Pair(sh[j])
                   /\ Counts(blk', b) = Counts(blk, b) /\ Fate(blk', b) = Fate(blk, b)
        /\ \A i, j \in WeakSlots :
            (i # j /\ wk[j].ctrl # Null /\ (WeakMove(i, j) \/ WeakMoveAssign(i, j))) =>
                LET b == wk[j].ctrl
                IN /\ wk'[j] = EmptySlot /\ Pair(wk'[i]) = Pair(wk[j])
                   /\ Counts(blk', b) = Counts(blk, b) /\ Fate(blk', b) = Fate(blk, b)
      ]_vars

\* C9 amended: a move construction changes nothing but the two handles (the source
\* becomes empty, the destination takes its pair, no block changes at all).  A move
\* assignment to another handle does the same and then releases the pair the
\* destination held: nothing more when it was empty; when it shared the source's
\* block that block's count goes down by one (strong for Shared, weak for Weak
\* Handles); in no case is the moved block disposed or destroyed.  Move-assigning a
\* handle to itself leaves it, and every block, as it was (the source is not emptied).
C9_Move ==
    [][ /\ \A i, j \in SharedSlots : SharedMove(i, j) =>
            /\ sh'[j] = EmptySlot /\ Pair(sh'[i]) = Pair(sh[j]) /\ blk' = blk
        /\ \A i, j \in WeakSlots : WeakMove(i, j) =>
            /\ wk'[j] = EmptySlot /\ Pair(wk'[i]) = Pair(wk[j]) /\ blk' = blk
        /\ \A i, j \in SharedSlots : SharedMoveAssign(i, j) =>
            LET b == sh[j].ctrl
                y == sh[i].ctrl
            IN IF i = j THEN sh' = sh /\ blk' = blk
               ELSE /\ sh'[j] = EmptySlot /\ Pair(sh'[i]) = Pair(sh[j])
                    /\ y = Null => blk' = blk
                    /\ (b # Null /\ y = b) => blk' = [blk EXCEPT ![b].use = @ - 1]
                    /\ (b # Null /\ y # Null /\ y # b /\ blk[y].use > 1) =>
                          blk' = [blk EXCEPT ![y].use = @ - 1]
                    /\ b # Null => Fate(blk', b) = Fate(blk, b) /\ blk'[b].use >= 1
        /\ \A i, j \in WeakSlots : WeakMoveAssign(i, j) =>
            LET b == wk[j].ctrl
                y == wk[i].ctrl
            IN IF i = j THEN wk' = wk /\ blk' = blk
               ELSE /\ wk'[j] = EmptySlot /\ Pair(wk'[i]) = Pair(wk[j])
                    /\ y = Null => blk' = blk
                    /\ (b # Null /\ y = b) => blk' = [blk EXCEPT ![b].weak = @ - 1]
                    /\ (b # Null /\ y # b) =>
                          Counts(blk', b) = Counts(blk, b) /\ Fate(blk', b) = Fate(blk, b)
      ]_vars

\* C9 witness: a moved-from (empty, still live) Shared Handle beside the handle that
\* took its pair as the block's only owner, and the same for two Weak Handles
C9_Witness ==
    /\ \E i, j \in SharedSlots :
        /\ i # j /\ sh[j] = EmptySlot /\ sh[i].ptr # Null
        /\ blk[sh[i].ctrl].use = 1 /\ blk[sh[i].ctrl].disposed = 0
    /\ \E i, j \in WeakSlots :
        /\ i # j /\ wk[j] = EmptySlot /\ wk[i].ctrl # Null
        /\ blk[wk[i].ctrl].weak = 1

\* C10: dynamic_pointer_cast<T>(other): when dynamic_cast fails or other holds no
\* payload the result is empty in both fields and no count changes; when it
\* succeeds the result has other's pair and the block's strong count is one more.
C10_DynamicCast ==
    [][ \A i, j \in SharedSlots, T \in CastTargets : DynamicCast(i, j, T) =>
            LET h == Pair(sh[j])
            IN /\ sh'[j] = sh[j]
               /\ IF h.ptr # Null /\ DynamicCastOK(blk[h.ptr].cls, T)
                  THEN /\ h.ctrl # Null /\ Pair(sh'[i]) = h
                       /\ blk' = [blk EXCEPT ![h.ctrl].use = @ + 1]
                  ELSE /\ sh'[i] = EmptySlot
                       /\ blk' = blk
      ]_vars

\* C10 witness: a handle to a Derived payload and the result of casting it share the
\* block with use_count() 2
C10_Witness ==
    \E i, j \in SharedSlots :
        /\ i # j /\ sh[i].ptr # Null /\ Pair(sh[i]) = Pair(sh[j])
        /\ blk[sh[i].ptr].cls = "Derived"
        /\ blk[sh[i].ctrl].use = 2

\* every handle of the program: the caller's variables and the members of payloads
SharedHandles == {Pair(sh[s]) : s \in SharedSlots} \cup {blk[p].next : p \in Blocks}
WeakHandles == {Pair(wk[w]) : w \in WeakSlots} \cup {blk[p].next_weak : p \in Blocks}

\* handles to one payload reference the block of its construction event, and a
\* block some Shared Handle references was not disposed
DerivedSetShares ==
    /\ \A h \in SharedHandles \cup WeakHandles : h.ptr # Null => h.ctrl = h.ptr
    /\ \A b \in Blocks : SharedHolders(b) > 0 => blk[b].disposed = 0

\* C11: an unchecked cast (static / const / reinterpret) of a handle with a control
\* block gives the source's pair, adds one to that block's strong count and changes
\* nothing else (no block is created); of an empty handle it gives an empty handle
\* and changes no block.  In every state the handles to one payload (made by copy,
\* move, cast or lock) reference one block, which is not disposed while any Shared
\* Handle of the set is left.
C11_SameBlock ==
    [][ /\ \A i, j \in SharedSlots : StaticCast(i, j) =>
              LET h == Pair(sh[j])
              IN /\ sh'[j] = sh[j] /\ wk' = wk
                 /\ IF h.ctrl # Null
                    THEN /\ Pair(sh'[i]) = h /\ sh'[i].live
                         /\ blk' = [blk EXCEPT ![h.ctrl].use = @ + 1]
                    ELSE /\ sh'[i] = EmptySlot
                         /\ blk' = blk
        /\ DerivedSetShares'
      ]_vars

\* C11 witness: two handles to the payload of a make_shared block share it with
\* use_count() 2, not disposed
C11_Witness ==
    \E i, j \in SharedSlots :
        /\ i # j /\ sh[i].ctrl # Null /\ Pair(sh[i]) = Pair(sh[j])
        /\ blk[sh[i].ctrl].kind = "inplace"
        /\ blk[sh[i].ctrl].use = 2 /\ blk[sh[i].ctrl].disposed = 0

\* C12: for every live Shared Handle the control-block reference is null iff the
\* payload pointer is null, so that use_count() == 0 exactly when the boolean
\* conversion is false.
C12_NullIffNull ==
    \A s \in SharedSlots : sh[s].live => (sh[s].ctrl = Null <=> sh[s].ptr = Null)

\* C13: each control block that was not reclaimed has strong_count equal to the
\* number of Shared Handles referencing it and weak_count equal to the number of
\* Weak Handles referencing it (handles held by payloads included); both are >= 0.
C13_CountsEqualHandles ==
    \A b \in Blocks : (Allocated(blk, b) /\ blk[b].destroyed = 0) =>
        /\ blk[b].use = SharedHolders(b) /\ blk[b].weak = WeakHolders(b)
        /\ blk[b].use >= 0 /\ blk[b].weak >= 0

\* C13 witness: a block with two Shared and two Weak Handles, one of the Weak
\* Handles being a payload's member
C13_Witness ==
    \E b \in Blocks :
        /\ blk[b].use = 2 /\ blk[b].weak = 2 /\ blk[b].destroyed = 0
        /\ \E p \in Blocks : blk[p].next_weak.ctrl = b

\* C14: a reclaimed block is never observed: once destroy has run on the block no
\* thread owns a Shared or Weak Handle to it and no thread is inside release(),
\* weak_release() or lock() on it.
C14_ReclaimedUnobserved ==
    blk[TheBlock].destroyed > 0 =>
        \A t \in Threads : ~th[t].s /\ ~th[t].w /\ th[t].pc = "idle"

\* C15: when the control-block allocation of an adopting constructor fails, the
\* adopted payload was deleted exactly once when the exception reaches the caller,
\* no control block was created and no handle exists.
C15_AdoptFailure ==
    [][ \A i \in SharedSlots : SharedAdoptFail(i) =>
            /\ orphan' = 1
            /\ blk' = blk /\ sh' = sh /\ wk' = wk /\ ~sh'[i].live
      ]_vars

\* C15 witness: the very first call was an adoption that failed: its payload was
\* deleted once, there is no block and no handle
C15_Witness ==
    /\ orphan = 1
    /\ \A b \in Blocks : ~Allocated(blk, b)
    /\ \A s \in SharedSlots : ~sh[s].live

\* C16: reset(p) on the sole owner of payload P leaves the handle owning p through
\* a new block with use_count() 1 and disposes P exactly once, the new block being
\* complete before the old one is released (a replacement that fails to be built
\* leaves the old block as it was); reset() leaves the handle empty and takes one
\* strong reference off the block it held, disposing the payload iff it was the last.
C16_Reset ==
    [][ /\ \A i \in SharedSlots, c \in Classes :
              LET y == sh[i].ctrl
              IN (y # Null /\ sh[i].ptr # Null /\ blk[y].use = 1 /\ SharedResetPtr(i, c)) =>
                    LET b == sh'[i].ctrl
                    IN /\ b # Null /\ b # y /\ ~Allocated(blk, b) /\ sh'[i] = Slot(b, b)
                       /\ blk'[b] = NewBlock("ptr", c, b)
                       /\ blk[y].disposed = 0 /\ blk'[y].disposed = 1
                       /\ blk[y].deleted = 0 /\ blk'[y].deleted = 1
                       /\ blk'[y].use = 0
        /\ \A i \in SharedSlots :
              LET y == sh[i].ctrl
              IN (y # Null /\ SharedResetPtrFail(i)) => blk'[y] = blk[y] /\ sh'[i] = sh[i]
        /\ \A i \in SharedSlots :
              LET y == sh[i].ctrl
              IN SharedReset(i) =>
                    /\ sh'[i] = EmptySlot
                    /\ y # Null =>
                          /\ blk'[y].use = blk[y].use - 1
                          /\ blk'[y].disposed = (IF blk[y].use = 1 THEN 1 ELSE 0)
                          /\ blk[y].disposed = 0
                    /\ y = Null => blk' = blk
      ]_vars

\* C16 witness: the one live handle owns a second adopted payload alone, the first
\* adopted payload was disposed once and its block reclaimed
C16_Witness ==
    \E i \in SharedSlots, b, y \in Blocks :
        /\ b # y /\ sh[i] = Slot(b, b) /\ \A j \in SharedSlots \ {i} : ~sh[j].live
        /\ blk[b].kind = "ptr" /\ blk[b].use = 1 /\ blk[b].disposed = 0
        /\ blk[y].kind = "ptr" /\ blk[y].disposed = 1 /\ blk[y].deleted = 1
        /\ blk[y].destroyed = 1

\* C17: when reset(p) fails to build the replacement handle, the handle it was
\* called on has the payload pointer and control block it had, every block has the
\* counts it had and no payload was disposed by the call.
C17_ResetFailure ==
    [][ \A i \in SharedSlots : SharedResetPtrFail(i) =>
            /\ sh' = sh /\ wk' = wk
            /\ \A b \in Blocks : Counts(blk', b) = Counts(blk, b) /\ Fate(blk', b) = Fate(blk, b)
            /\ blk' = blk
      ]_vars

\* C17 witness: a failed reset(p) (p was deleted) beside the handle, still the sole
\* owner of its payload, which a Weak Handle observes as alive
C17_Witness ==
    \E i \in SharedSlots :
        /\ orphan = 1 /\ sh[i].live /\ sh[i].ptr # Null
        /\ Counts(blk, sh[i].ctrl) = <<1, 1>> /\ Fate(blk, sh[i].ctrl) = <<0, 0>>
        /\ \E w \in WeakSlots : wk[w].ctrl = sh[i].ctrl

\* C18: swap on two Shared Handles, or on two Weak Handles, exchanges their pairs
\* and changes nothing else: no count of any block changes, neither dispose nor
\* destroy runs, every other handle is as before, and a second swap of the same two
\* handles gives back the state before the first.
C18_Swap ==
    [][ /\ \A i, j \in SharedSlots : SharedSwap(i, j) =>
              /\ Pair(sh'[i]) = Pair(sh[j]) /\ Pair(sh'[j]) = Pair(sh[i])
              /\ \A k \in SharedSlots \ {i, j} : sh'[k] = sh[k]
              /\ blk' = blk /\ wk' = wk
              /\ SwapPairs(sh', i, j) = sh
        /\ \A i, j \in WeakSlots : WeakSwap(i, j) =>
              /\ Pair(wk'[i]) = Pair(wk[j]) /\ Pair(wk'[j]) = Pair(wk[i])
              /\ \A k \in WeakSlots \ {i, j} : wk'[k] = wk[k]
              /\ blk' = blk /\ sh' = sh
              /\ SwapPairs(wk', i, j) = wk
      ]_vars

\* C18 witness: two Shared Handles own two different payloads alone, the handle
\* with the smaller index owning the later block, and two Weak Handles observe the
\* two blocks the same way round
C18_Witness ==
    /\ \E i, j \in SharedSlots :
          /\ i < j /\ sh[i].ptr # Null /\ sh[j].ptr # Null /\ sh[i].ctrl > sh[j].ctrl
          /\ blk[sh[i].ctrl].use = 1 /\ blk[sh[j].ctrl].use = 1
    /\ \E i, j \in WeakSlots :
          /\ i < j /\ wk[i].ctrl # Null /\ wk[j].ctrl # Null /\ wk[i].ctrl > wk[j].ctrl

\* what making Weak Handle i from a handle with pair h must do
WeakCopyPost(h, i) ==
    IF h.ctrl # Null
    THEN /\ Pair(wk'[i]) = h /\ wk'[i].live
         /\ blk' = [blk EXCEPT ![h.ctrl].weak = @ + 1]
         /\ WeakUseCount(blk', wk'[i]) = {blk[h.ctrl].use}
    ELSE /\ wk'[i] = EmptySlot
         /\ blk' = blk

\* C19: a Weak Handle made from a Shared Handle that has a control block, or copied
\* from such a Weak Handle, adds exactly one to weak_count of that block and leaves
\* everything else (strong_count, hence every use_count()) as it was; made from an
\* empty handle it is empty and no block changes; weak reset() takes one off
\* weak_count and leaves strong_count and the payload as they were.
C19_WeakCreation ==
    [][ /\ \A i \in WeakSlots, s \in SharedSlots :
              WeakFromShared(i, s) => WeakCopyPost(Pair(sh[s]), i) /\ sh' = sh
        /\ \A i, j \in WeakSlots :
              WeakCopy(i, j) => WeakCopyPost(Pair(wk[j]), i) /\ wk'[j] = wk[j] /\ sh' = sh
        /\ \A i \in WeakSlots :
              LET b == wk[i].ctrl
              IN WeakReset(i) =>
                    /\ wk'[i] = EmptySlot /\ sh' = sh
                    /\ b = Null => blk' = blk
                    /\ b # Null =>
                          /\ blk'[b].weak = blk[b].weak - 1 /\ blk'[b].use = blk[b].use
                          /\ blk'[b].disposed = blk[b].disposed
                          /\ blk'[b].deleted = blk[b].deleted
                          /\ blk'[b].m_ptr = blk[b].m_ptr
      ]_vars

\* C19 witness: the sole owner of a live payload beside two Weak Handles to it
C19_Witness ==
    \E s \in SharedSlots :
        /\ sh[s].ptr # Null
        /\ Counts(blk, sh[s].ctrl) = <<1, 2>> /\ blk[sh[s].ctrl].disposed = 0
        /\ \A w \in WeakSlots : wk[w].live /\ Pair(wk[w]) = Pair(sh[s])

\* the scenario of the cycle-breaking test: payloads a and b are WeakNodes made by
\* make_shared, each one's next_weak observes the other, Shared Handle i is the one
\* handle to a, Shared Handle j the one handle to b, no other Weak Handle exists
WeakCycle(a, b, i, j) ==
    /\ a # b /\ i # j
    /\ \A x \in {a, b} : /\ blk[x].kind = "inplace" /\ blk[x].cls = "WeakNode"
                          /\ SharedHolders(x) = 1 /\ WeakHolders(x) = 1
    /\ sh[i] = Slot(a, a) /\ sh[j] = Slot(b, b)
    /\ blk[a].next_weak = [ptr |-> b, ctrl |-> b]
    /\ blk[b].next_weak = [ptr |-> a, ctrl |-> a]

\* the scenario after the handle to a went out of scope: a is referenced by the
\* next_weak of b only, b by Shared Handle j only
HalfCycle(a, b, j) ==
    /\ a # b
    /\ \A x \in {a, b} : blk[x].kind = "inplace" /\ blk[x].cls = "WeakNode"
    /\ SharedHolders(a) = 0 /\ WeakHolders(a) = 1
    /\ SharedHolders(b) = 1 /\ WeakHolders(b) = 0
    /\ sh[j] = Slot(b, b)
    /\ blk[b].next_weak = [ptr |-> a, ctrl |-> a]

\* C20: two make_shared payloads that reference each other through Weak Handles
\* only: each reports use_count() 1, lock() on the weak member of one yields the
\* other; dropping one external handle disposes its payload and keeps its block
\* for the other's weak member; dropping the second disposes the second payload
\* and reclaims both blocks; each payload is disposed once and each block
\* reclaimed once, whichever external handle goes first.
C20_WeakCycle ==
    [][ \A a, b \in Blocks, i, j \in SharedSlots :
          /\ WeakCycle(a, b, i, j) =>
                /\ use_count(blk, a) = {1} /\ use_count(blk, b) = {1}
                /\ blk[a].disposed = 0 /\ blk[b].disposed = 0
                /\ LockResults(blk, blk[a].next_weak)
                      = { <<[ptr |-> b, ctrl |-> b], [blk EXCEPT ![b].use = 2]>> }
                /\ SharedDrop(i) =>
                      /\ HalfCycle(a, b, j)'
                      /\ Fate(blk', a) = <<1, 0>> /\ blk'[a].deleted = 1
                      /\ Counts(blk', a) = <<0, 1>>
                      /\ Fate(blk', b) = <<0, 0>> /\ blk'[b].deleted = 0
                      /\ Counts(blk', b) = <<1, 0>>
          /\ (HalfCycle(a, b, j) /\ SharedDrop(j)) =>
                /\ Fate(blk', a) = <<1, 1>> /\ blk'[a].deleted = 1
                /\ Fate(blk', b) = <<1, 1>> /\ blk'[b].deleted = 1
                /\ Counts(blk', a) = <<0, 0>> /\ Counts(blk', b) = <<0, 0>>
      ]_vars

\* C20 witness: the scenario is set up: both payloads are owned by their external
\* handle alone and observed by the weak member of the other
C20_Witness ==
    \E a, b \in Blocks, i, j \in SharedSlots :
        /\ WeakCycle(a, b, i, j)
        /\ Counts(blk, a) = <<1, 1>> /\ Counts(blk, b) = <<1, 1>>
        /\ Fate(blk, a) = <<0, 0>> /\ Fate(blk, b) = <<0, 0>>

\* the handle i a construction event returned: a block that did not exist before,
\* with strong_count 1 and weak_count 0, so that use_count() is 1
CreatedPost(i) ==
    LET b == sh'[i].ctrl
    IN /\ b # Null /\ ~Allocated(blk, b) /\ Allocated(blk', b)
       /\ Counts(blk', b) = <<1, 0>> /\ Fate(blk', b) = <<0, 0>>
       /\ use_count(blk', b) = {1}

\* C21: a control block is created with strong_count 1 and weak_count 0 by adopting
\* a raw pointer and by make_shared; for the handle h1 of a make_shared block:
\* copying it makes use_count() 2, dropping one of the two handles makes it 1 with
\* the payload not disposed, dropping the last one disposes the payload once.
C21_Creation ==
    [][ /\ \A i \in SharedSlots, c \in Classes :
              (SharedAdopt(i, c) \/ MakeShared(i, c) \/ SharedResetPtr(i, c)) => CreatedPost(i)
        /\ \A i \in SharedSlots : (SharedAdoptNull(i) \/ SharedResetNull(i)) => CreatedPost(i)
        /\ \A i, j \in SharedSlots :
              LET b == sh[i].ctrl
              IN (b # Null /\ blk[b].kind = "inplace" /\ i # j) =>
                    /\ (blk[b].use = 1 /\ SharedCopy(j, i)) =>
                          /\ use_count(blk', sh'[i].ctrl) = {2}
                          /\ use_count(blk', sh'[j].ctrl) = {2} /\ sh'[j].ctrl = b
                    /\ (blk[b].use = 2 /\ sh[j].ctrl = b /\ SharedDrop(j)) =>
                          /\ use_count(blk', sh'[i].ctrl) = {1}
                          /\ blk'[b].disposed = 0 /\ blk'[b].deleted = 0
                    /\ (blk[b].use = 1 /\ SharedDrop(i)) =>
                          /\ blk[b].disposed = 0 /\ blk'[b].disposed = 1
                          /\ blk'[b].deleted = 1
      ]_vars

\* C21 witness: the end of the scenario: the one block, made by make_shared, has
\* lost both handles, its payload was disposed once, no handle is left
C21_Witness ==
    \E b \in Blocks :
        /\ blk[b].kind = "inplace" /\ blk[b].cls = "Derived"
        /\ Counts(blk, b) = <<0, 0>> /\ Fate(blk, b) = <<1, 1>> /\ blk[b].deleted = 1
        /\ \A c \in Blocks \ {b} : ~Allocated(blk, c)
        /\ \A s \in SharedSlots : ~sh[s].live

\* ---- unique_ptr
\* the live unique_ptr variables that hold object o
UniqueHolders(U, o) == {u \in UniqueSlots : U.up[u].live /\ U.up[u].m_ptr = o}

\* single ownership: an object is held by at most one handle, a held object was
\* not deleted, no object is deleted twice, and an object no handle holds any
\* more (and that was not handed back by release()) was deleted once
SingleOwner(U) ==
    \A o \in Objects :
        /\ Card(UniqueHolders(U, o)) <= 1
        /\ U.obj[o].deleted <= 1
        /\ UniqueHolders(U, o) # {} => U.obj[o].state = "owned" /\ U.obj[o].deleted = 0
        /\ (U.obj[o].state = "owned" /\ UniqueHolders(U, o) = {}) => U.obj[o].deleted = 1

\* C22: unique_ptr single ownership: in every state at most one live handle holds
\* a given object and every adopted object that is no longer held was deleted
\* exactly once; a move leaves its source empty; the object a handle owns is
\* deleted (once) by the step that resets the handle to another pointer,
\* move-assigns over it or destroys it.
C22_UniqueOwnership ==
    [][ /\ SingleOwner(uq')
        /\ \A i, j \in UniqueSlots :
              (i # j /\ (UniqueMove(i, j) \/ UniqueMoveAssign(i, j))) =>
                 /\ uq'.up[j] = UniqueEmpty
                 /\ uq'.up[i] = [live |-> TRUE, m_ptr |-> uq.up[j].m_ptr]
        /\ \A i \in UniqueSlots :
              LET o == uq.up[i].m_ptr
              IN (/\ o # Null
                  /\ \/ UniqueDrop(i) \/ UniqueReset(i) \/ UniqueResetPtr(i)
                     \/ \E j \in UniqueSlots \ {i} : UniqueMoveAssign(i, j)) =>
                    /\ uq.obj[o].deleted = 0 /\ uq'.obj[o].deleted = 1
                    /\ \A q \in Objects \ {o} : uq'.obj[q].deleted = uq.obj[q].deleted
      ]_vars

\* C22 witness: a moved-from, empty handle beside the handle that owns the second
\* object; the first object was deleted once
C22_Witness ==
    \E i, j \in UniqueSlots, o, q \in Objects :
        /\ i # j /\ o # q
        /\ uq.up[j] = UniqueEmpty /\ uq.up[i] = [live |-> TRUE, m_ptr |-> q]
        /\ uq.obj[o] = [state |-> "owned", deleted |-> 1]
        /\ uq.obj[q] = [state |-> "owned", deleted |-> 0]

\* C23: release() returns the pointer the handle held, leaves the handle empty and
\* deletes nothing; destroying the handle afterwards deletes nothing either: an
\* object handed back by release() is deleted only by the caller.
C23_Release ==
    [][ /\ \A i \in UniqueSlots : UniqueRelease(i) =>
              /\ uq'.ret = uq.up[i].m_ptr
              /\ uq'.up = [uq.up EXCEPT ![i] = UniqueEmpty]
              /\ \A o \in Objects : uq'.obj[o].deleted = uq.obj[o].deleted
        /\ \A i \in UniqueSlots : (uq.up[i] = UniqueEmpty /\ UniqueDrop(i)) => uq'.obj = uq.obj
        /\ \A o \in Objects :
              (uq.obj[o].state = "released" /\ uq'.obj[o] # uq.obj[o]) =>
                  CallerDelete(o) /\ uq.obj[o].deleted = 0
        /\ \A o \in Objects : uq.obj[o].state = "released" => UniqueHolders(uq, o) = {}
      ]_vars

\* C23 witness: the handle that released its object is gone, the object was not
\* deleted and is the caller's
C23_Witness ==
    \E o \in Objects :
        /\ uq.ret = o /\ uq.obj[o] = [state |-> "released", deleted |-> 0]
        /\ \A u \in UniqueSlots : ~uq.up[u].live

\* C24: on one control block destroy runs only after dispose has run to its end,
\* whichever threads drop the last Shared and the last Weak Handle.
C24_DisposeBeforeDestroy ==
    blk[TheBlock].destroyed > 0 =>
        /\ blk[TheBlock].disposed > 0
        /\ \A t \in Threads : th[t].pc # "dispose"

\* the scenario of the circular-reference test: payloads a and b are Nodes made by
\* make_shared, each one's next owns the other, Shared Handle i is the external
\* handle to a and j the one to b, no Weak Handle observes them
SharedCycle(a, b, i, j) ==
    /\ a # b /\ i # j
    /\ \A x \in {a, b} : /\ blk[x].kind = "inplace" /\ blk[x].cls = "Node"
                          /\ SharedHolders(x) = 2 /\ WeakHolders(x) = 0
    /\ sh[i] = Slot(a, a) /\ sh[j] = Slot(b, b)
    /\ blk[a].next = [ptr |-> b, ctrl |-> b]
    /\ blk[b].next = [ptr |-> a, ctrl |-> a]

\* the two payloads own each other and no handle of the caller reaches them
LeakedCycle(a, b) ==
    /\ a # b
    /\ \A x \in {a, b} : /\ blk[x].kind = "inplace" /\ blk[x].cls = "Node"
                          /\ SharedHolders(x) = 1 /\ WeakHolders(x) = 0
    /\ blk[a].next = [ptr |-> b, ctrl |-> b]
    /\ blk[b].next = [ptr |-> a, ctrl |-> a]

\* C25: two make_shared payloads that own each other through Shared Handle
\* members report use_count() 2 while both external handles are alive; dropping an
\* external handle leaves its payload alive with strong_count 1; once both are
\* dropped each block keeps strong_count 1 in every later state: no payload is
\* disposed and no block reclaimed, whatever the caller does afterwards.
C25_SharedCycleLeaks ==
    [][ \A a, b \in Blocks :
          /\ \A i, j \in SharedSlots : SharedCycle(a, b, i, j) =>
                /\ use_count(blk, a) = {2} /\ use_count(blk, b) = {2}
                /\ SharedDrop(i) =>
                      /\ Counts(blk', a) = <<1, 0>> /\ Fate(blk', a) = <<0, 0>>
                      /\ blk'[a].deleted = 0 /\ blk'[b] = blk[b]
          /\ \A j \in SharedSlots :
                (/\ SharedHolders(a) = 1 /\ SharedHolders(b) = 2 /\ sh[j] = Slot(b, b)
                 /\ WeakHolders(a) = 0 /\ WeakHolders(b) = 0
                 /\ blk[a].cls = "Node" /\ blk[b].cls = "Node"
                 /\ blk[a].next = [ptr |-> b, ctrl |-> b]
                 /\ blk[b].next = [ptr |-> a, ctrl |-> a]
                 /\ SharedDrop(j)) =>
                      /\ blk' = [blk EXCEPT ![b].use = 1]
                      /\ blk[a].kind = "inplace" /\ blk[b].kind = "inplace" => LeakedCycle(a, b)'
          /\ LeakedCycle(a, b) =>
                /\ Counts(blk, a) = <<1, 0>> /\ Counts(blk, b) = <<1, 0>>
                /\ Fate(blk, a) = <<0, 0>> /\ Fate(blk, b) = <<0, 0>>
                /\ blk[a].deleted = 0 /\ blk[b].deleted = 0
                /\ LeakedCycle(a, b)' /\ blk' = blk
      ]_vars

\* C25 witness: both external handles are gone and the two payloads keep each
\* other alive
C25_Witness ==
    \E a, b \in Blocks :
        /\ LeakedCycle(a, b)
        /\ \A s \in SharedSlots : ~sh[s].live
        /\ Counts(blk, a) = <<1, 0>> /\ Counts(blk, b) = <<1, 0>>
        /\ blk[a].disposed = 0 /\ blk[b].disposed = 0

\* the payload of block b holds the only Weak Handle to b, and Shared Handle i is
\* the only Shared Handle to it
SelfObserved(b, i) ==
    /\ sh[i].live /\ sh[i].ctrl = b /\ SharedHolders(b) = 1 /\ WeakHolders(b) = 1
    /\ blk[b].next_weak = [ptr |-> b, ctrl |-> b]
    /\ Counts(blk, b) = <<1, 1>> /\ Fate(blk, b) = <<0, 0>>

\* C26: when a payload holds the only Weak Handle to its own control block,
\* dropping the last Shared Handle runs dispose exactly once and destroy exactly
\* once.
C26_ReentrantRelease ==
    [][ \A b \in Blocks, i \in SharedSlots :
            (SelfObserved(b, i) /\ (SharedDrop(i) \/ SharedReset(i))) =>
                Fate(blk', b) = <<1, 1>>
      ]_vars

\* C27: copy-assigning or move-assigning a Shared or Weak Handle that has a control
\* block to itself changes neither the handle nor any block (strong_count,
\* weak_count, payload), and runs neither dispose nor destroy, the sole owner
\* included.
C27_SelfAssign ==
    [][ /\ \A i \in SharedSlots :
              (sh[i].ctrl # Null /\ (SharedCopyAssign(i, i) \/ SharedMoveAssign(i, i))) =>
                  sh' = sh /\ blk' = blk /\ wk' = wk
        /\ \A i \in WeakSlots :
              (wk[i].ctrl # Null /\ (WeakCopyAssign(i, i) \/ WeakMoveAssign(i, i))) =>
                  wk' = wk /\ blk' = blk /\ sh' = sh
      ]_vars

\* C27 witness: after an odd number of calls (two made the handles, one more left
\* them as they were), the sole owner of a live payload beside the only Weak
\* Handle to it, no other variable alive
C27_Witness ==
    \E i \in SharedSlots, w \in WeakSlots :
        /\ calls = 1 /\ sh[i].ptr # Null /\ Pair(wk[w]) = Pair(sh[i])
        /\ Counts(blk, sh[i].ctrl) = <<1, 1>> /\ Fate(blk, sh[i].ctrl) = <<0, 0>>
        /\ \A j \in SharedSlots \ {i} : ~sh[j].live
        /\ \A v \in WeakSlots \ {w} : ~wk[v].live
====
